---- MODULE Spec2Model ----
(***************************************************************************)
(* A model of the phyphox sensor pipeline of src/sensors/get_data.py:      *)
(* the snapshot parser, the polling loop of PhyphoxSensorReader, its       *)
(* rolling buffer and consumer queue, and the draining SensorPlotter.      *)
(*                                                                         *)
(* Numbers are integers in tenths (9.8 is 98).  Time is not measured: a    *)
(* sleep, a backoff and a join timeout are steps that may be taken at any  *)
(* moment, as thread scheduling allows.                                    *)
(***************************************************************************)
EXTENDS Integers, Sequences, FiniteSets, TLC

\* ------------------------------------------------------------------ bounds
\* fetches issued in a session (one start phase, then stops)
MaxPolls == 4
\* fetches issued by all polling threads together when callers may restart
MaxRestartPolls == 2
\* polling threads ever spawned on one reader
MaxThreads == 2
\* edits applied to a payload before it is parsed (parser specification)
MaxEdits == 2
\* largest count handed to get_data_history
MaxCount == 3
\* PhyphoxSensorReader(max_buffer_size=...) of the modelled reader
max_buffer_size == 2
\* SensorPlotter(max_points=...) of the modelled plotters
max_points == 2

\* ------------------------------------------------------------ JSON values
\* What response.json() can hand to the parser: null, a number, a list or a
\* mapping with string keys.  Every value carries its Python type in `kind`.
JNull == [kind |-> "null"]
JNum(n) == [kind |-> "num", v |-> n]
JList(s) == [kind |-> "list", items |-> s]
JDict(m) == [kind |-> "dict", map |-> m]

EmptyMap == [k \in {} |-> JNull]
EmptyDict == JDict(EmptyMap)
EmptyList == JList(<<>>)

\* the literal 0.0 of safe_extract
Zero == JNum(0)

sensor_types ==
  << "gyroX", "gyroY", "gyroZ", "gyro_time",
     "accX", "accY", "accZ", "acc_time",
     "graX", "graY", "graZ", "graT",
     "lin_accX", "lin_accY", "lin_accZ", "lin_acc_time" >>

Channels == { sensor_types[i] : i \in 1..Len(sensor_types) }

\* ---------------------------------------------------- Python on JSON values
\* x.get(key, default) exists on mappings only; on anything else the
\* attribute lookup raises AttributeError.
HasGet(x) == x.kind = "dict"

DictGet(x, key, default) ==
  IF key \in DOMAIN x.map THEN x.map[key] ELSE default

\* len(x) exists on lists and mappings; on null or a number it raises TypeError.
HasLen(x) == x.kind \in {"list", "dict"}

PyLen(x) == IF x.kind = "list" THEN Len(x.items) ELSE Cardinality(DOMAIN x.map)

\* x[index] for a non-negative index within len(x): the item of a list; on a
\* mapping the integer is looked up as a key, which no JSON mapping has.
CanIndex(x) == x.kind = "list"

\* An outcome of a Python expression: a value, or an exception raised.
Value(v) == [raised |-> FALSE, value |-> v]
Raised == [raised |-> TRUE, value |-> JNull]

\* ------------------------------------------------------------------ parser
\* Variant: the newest sample of the buffer instead of the one at `index`
\* (what src/ios/client_phyphox.py reads with [-1]).
safe_extract_last(raw_data, buffer_name, index) ==
  IF ~HasGet(raw_data) THEN Raised
  ELSE LET channels == DictGet(raw_data, "buffer", EmptyDict) IN
    IF ~HasGet(channels) THEN Raised
    ELSE LET channel == DictGet(channels, buffer_name, EmptyDict) IN
      IF ~HasGet(channel) THEN Raised
      ELSE LET buffer_data == DictGet(channel, "buffer", EmptyList) IN
        IF ~HasLen(buffer_data) THEN Raised
        ELSE IF PyLen(buffer_data) > index
          THEN (IF CanIndex(buffer_data)
                  THEN Value(buffer_data.items[Len(buffer_data.items)])
                  ELSE Raised)
          ELSE Value(Zero)

\* Variant: subscripts instead of .get with defaults, so that a missing
\* 'buffer' or channel raises KeyError.
safe_extract_strict(raw_data, buffer_name, index) ==
  IF ~HasGet(raw_data) THEN Raised
  ELSE IF "buffer" \notin DOMAIN raw_data.map THEN Raised
  ELSE LET channels == raw_data.map["buffer"] IN
    IF ~HasGet(channels) THEN Raised
    ELSE IF buffer_name \notin DOMAIN channels.map THEN Raised
    ELSE LET channel == channels.map[buffer_name] IN
      IF ~HasGet(channel) THEN Raised
      ELSE LET buffer_data == DictGet(channel, "buffer", EmptyList) IN
        IF ~HasLen(buffer_data) THEN Raised
        ELSE IF PyLen(buffer_data) > index
          THEN (IF CanIndex(buffer_data)
                  THEN Value(buffer_data.items[index + 1])
                  ELSE Raised)
          ELSE Value(Zero)

\* safe_extract of parse_sensor_data: the sample at `index` of the channel's
\* buffer, 0.0 when the channel or its buffer is missing or too short; an
\* exception when a level of the payload is not of the expected type.
safe_extract(raw_data, buffer_name, index) ==
  IF ~HasGet(raw_data) THEN Raised
  ELSE LET channels == DictGet(raw_data, "buffer", EmptyDict) IN
    IF ~HasGet(channels) THEN Raised
    ELSE LET channel == DictGet(channels, buffer_name, EmptyDict) IN
      IF ~HasGet(channel) THEN Raised
      ELSE LET buffer_data == DictGet(channel, "buffer", EmptyList) IN
        IF ~HasLen(buffer_data) THEN Raised
        ELSE IF PyLen(buffer_data) > index
          THEN (IF CanIndex(buffer_data)
                  THEN Value(buffer_data.items[index + 1])
                  ELSE Raised)
          ELSE Value(Zero)

\* np.array([x, y, z]) over samples that are numbers or null: a float array
\* when every sample is a number, an object array holding the samples as they
\* are when one of them is null.
np_array(samples) ==
  [dtype |-> IF \A i \in 1..Len(samples) : samples[i].kind = "num"
               THEN "float64" ELSE "object",
   items |-> samples]

\* The value parse_sensor_data returns after catching an exception.
None == [kind |-> "none"]

\* parse_sensor_data(raw_data), with `now` the value of datetime.now().
parse_sensor_data(raw_data, now) ==
  LET ex(name) == safe_extract(raw_data, name, 0)
      val(name) == ex(name).value
  IN IF \E i \in 1..Len(sensor_types) : ex(sensor_types[i]).raised
       THEN None
       ELSE [kind |-> "snapshot",
             timestamp |-> now,
             gravity |->
               [data |-> np_array(<<val("graX"), val("graY"), val("graZ")>>),
                time |-> val("graT")],
             linear_acceleration |->
               [data |-> np_array(<<val("lin_accX"), val("lin_accY"), val("lin_accZ")>>),
                time |-> val("lin_acc_time")],
             acceleration |->
               [data |-> np_array(<<val("accX"), val("accY"), val("accZ")>>),
                time |-> val("acc_time")],
             gyroscope |->
               [data |-> np_array(<<val("gyroX"), val("gyroY"), val("gyroZ")>>),
                time |-> val("gyro_time")]]

\* ------------------------------------------------------------------- state
\* Callers of start_collection / stop_collection, polling threads, plotters.
AllCallers == {"main", "aux"}
AllPlotters == {"p1", "p2"}
ThreadIds == 1..MaxThreads

\* The 12 per-axis series of a SensorPlotter, as <<group, axis index>>.
Groups == {"gravity", "linear_acceleration", "acceleration", "gyroscope"}
Series == Groups \X {0, 1, 2}

VARIABLES
  is_running,         \* PhyphoxSensorReader.is_running
  collection_thread,  \* PhyphoxSensorReader.collection_thread: a thread id, 0 for None
  data_buffer,        \* PhyphoxSensorReader.data_buffer, oldest first
  data_queue,         \* PhyphoxSensorReader.data_queue, head first
  thread,             \* per polling thread: position in collect_data and its locals
  caller,             \* per caller: position in start_collection / stop_collection
  plotter,            \* per SensorPlotter: position in update_plot_data and its series
  ret,                \* the value the last read (history, latest, export) returned
  polls,              \* fetches issued so far; also the reading of datetime.now()
  outcomes,           \* history: the outcome of every fetch, in order
  waits,              \* history: every sleep or backoff begun, in order
  pushed,             \* history: every snapshot appended to data_buffer, in order
  enqueued,           \* history: every snapshot put on data_queue, in order
  drained,            \* history: per plotter, every snapshot it got, in order
  ever_stopped,       \* history: stop_collection has been called
  p_raw,    \* parser specification: the payload handed to parse_sensor_data
  p_edits,  \* parser specification: edits applied to p_raw so far
  p_out     \* parser specification: [done, result] of parse_sensor_data(p_raw)

parser_vars == <<p_raw, p_edits, p_out>>

reader_vars == <<is_running, collection_thread, data_buffer, data_queue>>

history_vars == <<polls, outcomes, waits, pushed, enqueued, drained, ever_stopped>>

system_vars == <<reader_vars, thread, caller, plotter, ret, history_vars>>

vars == <<system_vars, parser_vars>>

\* ------------------------------------------------------- data structures
\* Variant: a full buffer refuses the new item and keeps its oldest ones.
deque_append_keep_oldest(d, x, maxlen) ==
  IF Len(d) >= maxlen THEN d ELSE Append(d, x)

\* deque(maxlen=n).append(x): x goes to the right end; a full deque first
\* drops its leftmost item; a deque of maxlen 0 stays empty.
deque_append(d, x, maxlen) ==
  IF maxlen = 0 THEN <<>>
  ELSE IF Len(d) >= maxlen THEN Append(Tail(d), x)
  ELSE Append(d, x)

\* list[start:] of Python: a negative start counts from the end and is clamped
\* to the beginning; a start beyond the end gives the empty list.
PySliceFrom(list, start) ==
  LET n == Len(list)
      from == IF start < 0 THEN (IF n + start < 0 THEN 0 ELSE n + start)
              ELSE (IF start > n THEN n ELSE start)
  IN SubSeq(list, from + 1, n)

\* The count argument of get_data_history: None, or an integer.
NoCount == [given |-> FALSE, n |-> 0]
Count(k) == [given |-> TRUE, n |-> k]

\* get_data_history(count) on the buffer `buffer`.
get_data_history(buffer, count) ==
  IF ~count.given THEN buffer ELSE PySliceFrom(buffer, 0 - count.n)

\* Variant: the leftmost item of the buffer instead of the rightmost.
get_latest_data_oldest(buffer) ==
  IF buffer # <<>> THEN buffer[1] ELSE None

\* self.data_buffer[-1] if self.data_buffer else None
get_latest_data(buffer) ==
  IF buffer # <<>> THEN buffer[Len(buffer)] ELSE None

\* A polling thread that has not been created.
NewThread ==
  [pc |-> "unborn", parsed_data |-> None, outcome |-> "none",
   notified |-> FALSE, appended |-> FALSE]

\* --------------------------------------------------- parser specification
\* A channel's entry under payload['buffer'], as the phone sends it.
Entry(samples) == JDict("buffer" :> JList(samples))

\* The payload with one entry per channel, channel i holding the samples
\* 10*i+1 and 10*i+2 so that no two channels and no two indices agree.
FullPayload ==
  JDict("buffer" :> JDict(
    [c \in Channels |->
       LET i == CHOOSE j \in 1..Len(sensor_types) : sensor_types[j] = c
       IN Entry(<<JNum(10 * i + 1), JNum(10 * i + 2)>>)]))

\* Payloads the edits start from: mappings, and values that are no mapping of
\* channels at all.
BasePayloads ==
  { FullPayload,
    JDict("buffer" :> EmptyDict),
    EmptyDict,
    EmptyList,
    JNull,
    JNum(7),
    JList(<<FullPayload>>),
    JDict("buffer" :> JList(<<JNum(1)>>)),
    JDict("buffer" :> JNull) }

\* Entries an edit can put under a channel name: a buffer that is empty, holds
\* numbers, holds null; a mapping without 'buffer'.
WellFormedEntries ==
  { Entry(<<>>),
    Entry(<<JNum(1), JNum(2)>>),
    Entry(<<JNull>>),
    EmptyDict }

\* Entries of the wrong shape: no mapping, or a 'buffer' that is no list.
MalformedEntries ==
  { JNull,
    JDict("buffer" :> JDict("0" :> JNum(1))) }

CanEdit ==
  /\ ~p_out.done
  /\ p_edits < MaxEdits
  /\ p_raw.kind = "dict"
  /\ "buffer" \in DOMAIN p_raw.map
  /\ p_raw.map["buffer"].kind = "dict"

WithChannels(m) == JDict("buffer" :> JDict(m))

SetChannel ==
  /\ CanEdit
  /\ \E c \in Channels, e \in WellFormedEntries \cup MalformedEntries :
       LET m == p_raw.map["buffer"].map
       IN p_raw' = WithChannels([k \in DOMAIN m \cup {c} |-> IF k = c THEN e ELSE m[k]])
  /\ p_edits' = p_edits + 1
  /\ UNCHANGED <<p_out, system_vars>>

DropChannel ==
  /\ CanEdit
  /\ \E c \in DOMAIN p_raw.map["buffer"].map :
       LET m == p_raw.map["buffer"].map
       IN p_raw' = WithChannels([k \in DOMAIN m \ {c} |-> m[k]])
  /\ p_edits' = p_edits + 1
  /\ UNCHANGED <<p_out, system_vars>>

ParsePayload ==
  /\ ~p_out.done
  /\ p_out' = [done |-> TRUE, result |-> parse_sensor_data(p_raw, 0)]
  /\ UNCHANGED <<p_raw, p_edits, system_vars>>

\* A reader, its plotters and its callers right after construction.
InitSystem ==
  /\ is_running = FALSE
  /\ collection_thread = 0
  /\ data_buffer = <<>>
  /\ data_queue = <<>>
  /\ thread = [t \in ThreadIds |-> NewThread]
  /\ caller = [c \in AllCallers |->
       [pc |-> "idle", op |-> "none", target |-> 0, skipped |-> FALSE,
        repeat |-> FALSE]]
  /\ plotter = [p \in AllPlotters |-> [pc |-> "idle", raced |-> FALSE, series |-> [s \in Series |-> <<>>]]]
  /\ ret = [op |-> "none", count |-> NoCount, value |-> <<>>, buffer |-> <<>>, at |-> 0,
            quiet |-> FALSE, raised |-> FALSE, written |-> FALSE]
  /\ polls = 0
  /\ outcomes = <<>>
  /\ waits = <<>>
  /\ pushed = <<>>
  /\ enqueued = <<>>
  /\ drained = [p \in AllPlotters |-> <<>>]
  /\ ever_stopped = FALSE

InitParser ==
  /\ InitSystem
  /\ p_raw \in BasePayloads
  /\ p_edits = 0
  /\ p_out = [done |-> FALSE, result |-> None]

NextParser == SetChannel \/ DropChannel \/ ParsePayload

SpecParser == InitParser /\ [][NextParser]_vars

\* ------------------------------------------------------- transport stub
\* A payload with every channel present, one sample each.
StubPayload(gx, gy, gz) ==
  WithChannels(
    [c \in Channels |->
       CASE c = "graX" -> Entry(<<gx>>)
         [] c = "graY" -> Entry(<<gy>>)
         [] c = "graZ" -> Entry(<<gz>>)
         [] OTHER -> Entry(<<JNum(1)>>)])

\* What a fetch that succeeds can return: gravity (0, 0, 9.8); a payload whose
\* first graX sample is null; a payload that is a list, not a mapping.
GravityPayload == StubPayload(JNum(0), JNum(0), JNum(98))
NullSamplePayload == StubPayload(JNull, JNum(0), JNum(98))
ListPayload == EmptyList

StubPayloads == {GravityPayload, NullSamplePayload, ListPayload}

\* ----------------------------------------------------------- export
\* Variant: the gravity columns taken from the wrong components.
export_to_dataframe_swapped(buffer) ==
  [i \in 1..Len(buffer) |->
     LET data == buffer[i] IN
     [timestamp |-> data.timestamp,
      gravity_x |-> data.gravity.data.items[3],
      gravity_y |-> data.gravity.data.items[2],
      gravity_z |-> data.gravity.data.items[1],
      gravity_time |-> data.gravity.time,
      lin_acc_x |-> data.linear_acceleration.data.items[1],
      lin_acc_y |-> data.linear_acceleration.data.items[2],
      lin_acc_z |-> data.linear_acceleration.data.items[3],
      lin_acc_time |-> data.linear_acceleration.time,
      acc_x |-> data.acceleration.data.items[1],
      acc_y |-> data.acceleration.data.items[2],
      acc_z |-> data.acceleration.data.items[3],
      acc_time |-> data.acceleration.time,
      gyro_x |-> data.gyroscope.data.items[1],
      gyro_y |-> data.gyroscope.data.items[2],
      gyro_z |-> data.gyroscope.data.items[3],
      gyro_time |-> data.gyroscope.time]]

\* export_to_dataframe over the snapshots of the buffer: the rows of the
\* DataFrame, one record of 17 columns per snapshot, oldest first; no rows
\* (pd.DataFrame()) for an empty buffer.
export_to_dataframe(buffer) ==
  [i \in 1..Len(buffer) |->
     LET data == buffer[i] IN
     [timestamp |-> data.timestamp,
      gravity_x |-> data.gravity.data.items[1],
      gravity_y |-> data.gravity.data.items[2],
      gravity_z |-> data.gravity.data.items[3],
      gravity_time |-> data.gravity.time,
      lin_acc_x |-> data.linear_acceleration.data.items[1],
      lin_acc_y |-> data.linear_acceleration.data.items[2],
      lin_acc_z |-> data.linear_acceleration.data.items[3],
      lin_acc_time |-> data.linear_acceleration.time,
      acc_x |-> data.acceleration.data.items[1],
      acc_y |-> data.acceleration.data.items[2],
      acc_z |-> data.acceleration.data.items[3],
      acc_time |-> data.acceleration.time,
      gyro_x |-> data.gyroscope.data.items[1],
      gyro_y |-> data.gyroscope.data.items[2],
      gyro_z |-> data.gyroscope.data.items[3],
      gyro_time |-> data.gyroscope.time]]

\* ------------------------------------------------------ polling thread
\* `if parsed_data:` -- None is falsy, a non-empty dict is truthy.
Truthy(x) == x.kind # "none"

\* print_current_data formats the 12 axis values with :6.2f, which raises
\* TypeError on an element that is None.
PrintRaises(data) ==
  \E g \in Groups : \E i \in 1..3 : data[g].data.items[i].kind # "num"

Waiting(t) == thread[t].pc \in {"started", "sleep", "backoff2", "backoff1"}

\* Variant: `while True:` -- the loop never reads the flag.
LoopCheckForever(t) ==
  /\ Waiting(t)
  /\ thread' = [thread EXCEPT ![t] =
       [pc |-> "fetch", parsed_data |-> None, outcome |-> "none",
        notified |-> FALSE, appended |-> FALSE]]
  /\ UNCHANGED <<reader_vars, caller, plotter, ret, history_vars, parser_vars>>

\* `while self.is_running:` -- at thread start and after every sleep.
LoopCheck(t) ==
  /\ Waiting(t)
  /\ thread' = [thread EXCEPT ![t] =
       IF is_running
         THEN [pc |-> "fetch", parsed_data |-> None, outcome |-> "none",
               notified |-> FALSE, appended |-> FALSE]
         ELSE [@ EXCEPT !.pc = "done"]]
  /\ UNCHANGED <<reader_vars, caller, plotter, ret, history_vars, parser_vars>>

\* Variant: a failed fetch falls through to the sampling sleep of 0.1.
FetchFailShortSleep(t, budget) ==
  /\ thread[t].pc = "fetch"
  /\ polls < budget
  /\ polls' = polls + 1
  /\ outcomes' = Append(outcomes, "fail")
  /\ waits' = Append(waits, "sleep")
  /\ thread' = [thread EXCEPT ![t].pc = "sleep", ![t].outcome = "fail",
                              ![t].notified = TRUE]
  /\ UNCHANGED <<reader_vars, caller, plotter, ret, pushed, enqueued, drained,
                 ever_stopped, parser_vars>>

\* Variant: the exception of a failed fetch is not caught and ends the thread.
FetchFailExit(t, budget) ==
  /\ thread[t].pc = "fetch"
  /\ polls < budget
  /\ polls' = polls + 1
  /\ outcomes' = Append(outcomes, "fail")
  /\ thread' = [thread EXCEPT ![t].pc = "done", ![t].outcome = "fail",
                              ![t].notified = TRUE]
  /\ UNCHANGED <<reader_vars, caller, plotter, ret, waits, pushed, enqueued, drained,
                 ever_stopped, parser_vars>>

\* requests.get / raise_for_status raise RequestException: the handler prints
\* the error and begins time.sleep(2).
FetchFail(t, budget) ==
  /\ thread[t].pc = "fetch"
  /\ polls < budget
  /\ polls' = polls + 1
  /\ outcomes' = Append(outcomes, "fail")
  /\ waits' = Append(waits, "backoff2")
  /\ thread' = [thread EXCEPT ![t].pc = "backoff2", ![t].outcome = "fail",
                              ![t].notified = TRUE]
  /\ UNCHANGED <<reader_vars, caller, plotter, ret, pushed, enqueued, drained,
                 ever_stopped, parser_vars>>

\* The fetch returns a payload and parse_sensor_data runs on it.  On None the
\* parser has printed its error, `if parsed_data:` skips the block and
\* time.sleep(0.1) begins.
FetchOk(t, payloads, budget) ==
  /\ thread[t].pc = "fetch"
  /\ polls < budget
  /\ polls' = polls + 1
  /\ \E raw_data \in payloads :
       LET parsed_data == parse_sensor_data(raw_data, polls + 1) IN
         IF Truthy(parsed_data)
           THEN /\ thread' = [thread EXCEPT ![t].pc = "append",
                                            ![t].parsed_data = parsed_data,
                                            ![t].outcome = "ok"]
                /\ outcomes' = Append(outcomes, "ok")
                /\ waits' = waits
           ELSE /\ thread' = [thread EXCEPT ![t].pc = "sleep",
                                            ![t].outcome = "reject",
                                            ![t].notified = TRUE]
                /\ outcomes' = Append(outcomes, "reject")
                /\ waits' = Append(waits, "sleep")
  /\ UNCHANGED <<reader_vars, caller, plotter, ret, pushed, enqueued, drained,
                 ever_stopped, parser_vars>>

\* self.data_buffer.append(parsed_data)
BufferAppend(t) ==
  /\ thread[t].pc = "append"
  /\ data_buffer' = deque_append(data_buffer, thread[t].parsed_data, max_buffer_size)
  /\ pushed' = Append(pushed, thread[t].parsed_data)
  /\ thread' = [thread EXCEPT ![t].pc = "put", ![t].appended = TRUE]
  /\ UNCHANGED <<is_running, collection_thread, data_queue, caller, plotter, ret,
                 polls, outcomes, waits, enqueued, drained, ever_stopped, parser_vars>>

\* Variant: the snapshot is put on the queue twice.
QueuePutTwice(t) ==
  /\ thread[t].pc = "put"
  /\ data_queue' = data_queue \o <<thread[t].parsed_data, thread[t].parsed_data>>
  /\ enqueued' = enqueued \o <<thread[t].parsed_data, thread[t].parsed_data>>
  /\ thread' = [thread EXCEPT ![t].pc = "print"]
  /\ UNCHANGED <<is_running, collection_thread, data_buffer, caller, plotter, ret,
                 polls, outcomes, waits, pushed, drained, ever_stopped, parser_vars>>

\* self.data_queue.put(parsed_data)
QueuePut(t) ==
  /\ thread[t].pc = "put"
  /\ data_queue' = Append(data_queue, thread[t].parsed_data)
  /\ enqueued' = Append(enqueued, thread[t].parsed_data)
  /\ thread' = [thread EXCEPT ![t].pc = "print"]
  /\ UNCHANGED <<is_running, collection_thread, data_buffer, caller, plotter, ret,
                 polls, outcomes, waits, pushed, drained, ever_stopped, parser_vars>>

\* self.print_current_data(parsed_data), then time.sleep(0.1); when the format
\* raises, `except Exception` prints the error and begins time.sleep(1).
PrintData(t) ==
  /\ thread[t].pc = "print"
  /\ IF PrintRaises(thread[t].parsed_data)
       THEN /\ thread' = [thread EXCEPT ![t].pc = "backoff1", ![t].notified = TRUE]
            /\ waits' = Append(waits, "backoff1")
       ELSE /\ thread' = [thread EXCEPT ![t].pc = "sleep"]
            /\ waits' = Append(waits, "sleep")
  /\ UNCHANGED <<reader_vars, caller, plotter, ret, polls, outcomes, pushed,
                 enqueued, drained, ever_stopped, parser_vars>>

collect_data(t, payloads, budget) ==
  \/ LoopCheck(t)
  \/ FetchFail(t, budget)
  \/ FetchOk(t, payloads, budget)
  \/ BufferAppend(t)
  \/ QueuePut(t)
  \/ PrintData(t)

\* ------------------------------------------------- start / stop
\* A caller's record: its position, the call it made last (op), the thread it
\* created or joins (target), whether its last start_collection found the
\* flag set and returned without starting anything (skipped), and whether its
\* call is a stop_collection that directly follows a stop_collection (repeat).
Unborn == { t \in ThreadIds : thread[t].pc = "unborn" }

\* Variant: start_collection without the test of is_running.
StartCheckAlways(c) ==
  /\ caller[c].pc = "idle"
  /\ Unborn # {}
  /\ caller' = [caller EXCEPT ![c] =
       [pc |-> "start_set", op |-> "start", target |-> 0, skipped |-> FALSE,
        repeat |-> FALSE]]
  /\ UNCHANGED <<reader_vars, thread, plotter, ret, history_vars, parser_vars>>

\* `if not self.is_running:` -- a call that finds the flag set returns at once.
StartCheck(c) ==
  /\ caller[c].pc = "idle"
  /\ is_running \/ Unborn # {}
  /\ caller' = [caller EXCEPT ![c] =
       [pc |-> IF is_running THEN "idle" ELSE "start_set",
        op |-> "start", target |-> 0, skipped |-> is_running, repeat |-> FALSE]]
  /\ UNCHANGED <<reader_vars, thread, plotter, ret, history_vars, parser_vars>>

\* self.is_running = True
StartSet(c) ==
  /\ caller[c].pc = "start_set"
  /\ is_running' = TRUE
  /\ caller' = [caller EXCEPT ![c].pc = "start_create"]
  /\ UNCHANGED <<collection_thread, data_buffer, data_queue, thread, plotter, ret,
                 history_vars, parser_vars>>

\* self.collection_thread = threading.Thread(target=self.collect_data, daemon=True)
StartCreate(c) ==
  /\ caller[c].pc = "start_create"
  /\ Unborn # {}
  /\ LET t == CHOOSE u \in Unborn : \A w \in Unborn : u <= w IN
       /\ collection_thread' = t
       /\ thread' = [thread EXCEPT ![t].pc = "created"]
       /\ caller' = [caller EXCEPT ![c].pc = "start_thread", ![c].target = t]
  /\ UNCHANGED <<is_running, data_buffer, data_queue, plotter, ret, history_vars,
                 parser_vars>>

\* self.collection_thread.start()
StartThread(c) ==
  /\ caller[c].pc = "start_thread"
  /\ collection_thread # 0
  /\ thread[collection_thread].pc = "created"
  /\ thread' = [thread EXCEPT ![collection_thread].pc = "started"]
  /\ caller' = [caller EXCEPT ![c].pc = "idle"]
  /\ UNCHANGED <<reader_vars, plotter, ret, history_vars, parser_vars>>

start_collection(c) ==
  \/ StartCheck(c)
  \/ StartSet(c)
  \/ StartCreate(c)
  \/ StartThread(c)

\* Variant: stop_collection written as a toggle of the flag.
StopClearToggle(c) ==
  /\ caller[c].pc = "idle"
  /\ is_running' = ~is_running
  /\ ever_stopped' = TRUE
  /\ caller' = [caller EXCEPT ![c] =
       [pc |-> IF collection_thread # 0 THEN "stop_join" ELSE "idle",
        op |-> "stop", target |-> collection_thread, skipped |-> FALSE,
        repeat |-> caller[c].op = "stop"]]
  /\ UNCHANGED <<collection_thread, data_buffer, data_queue, thread, plotter, ret,
                 polls, outcomes, waits, pushed, enqueued, drained, parser_vars>>

\* self.is_running = False; `if self.collection_thread:` selects the join.
StopClear(c) ==
  /\ caller[c].pc = "idle"
  /\ is_running' = FALSE
  /\ ever_stopped' = TRUE
  /\ caller' = [caller EXCEPT ![c] =
       [pc |-> IF collection_thread # 0 THEN "stop_join" ELSE "idle",
        op |-> "stop", target |-> collection_thread, skipped |-> FALSE,
        repeat |-> caller[c].op = "stop"]]
  /\ UNCHANGED <<collection_thread, data_buffer, data_queue, thread, plotter, ret,
                 polls, outcomes, waits, pushed, enqueued, drained, parser_vars>>

\* join(timeout=1) returns because the thread has ended.
JoinDone(c) ==
  /\ caller[c].pc = "stop_join"
  /\ thread[caller[c].target].pc = "done"
  /\ caller' = [caller EXCEPT ![c].pc = "idle"]
  /\ UNCHANGED <<reader_vars, thread, plotter, ret, history_vars, parser_vars>>

\* join(timeout=1) returns because the timeout has elapsed, the thread alive.
JoinTimeout(c) ==
  /\ caller[c].pc = "stop_join"
  /\ thread[caller[c].target].pc \notin {"done", "created"}
  /\ caller' = [caller EXCEPT ![c].pc = "idle"]
  /\ UNCHANGED <<reader_vars, thread, plotter, ret, history_vars, parser_vars>>

stop_collection(c) ==
  \/ StopClear(c)
  \/ JoinDone(c)
  \/ JoinTimeout(c)

\* ------------------------------------------------------------ plotter
\* The value update_plot_data appends to series <<group, axis>> for `data`.
AxisValue(data, s) == data[s[1]].data.items[s[2] + 1]

\* `while not self.sensor_reader.data_queue.empty():` -- a refresh tick begins
\* here and loops back here after every snapshot.
DrainCheck(p) ==
  /\ plotter[p].pc \in {"idle", "loop"}
  /\ plotter' = [plotter EXCEPT ![p].pc = IF data_queue = <<>> THEN "idle" ELSE "get",
                                ![p].raced = FALSE]
  /\ UNCHANGED <<reader_vars, thread, caller, ret, history_vars, parser_vars>>

\* Variant: the queue hands out its newest item first (a LifoQueue).
DrainGetNewest(p) ==
  /\ plotter[p].pc = "get"
  /\ IF data_queue = <<>>
       THEN /\ plotter' = [plotter EXCEPT ![p].pc = "idle", ![p].raced = TRUE]
            /\ UNCHANGED <<data_queue, drained>>
       ELSE LET data == data_queue[Len(data_queue)] IN
            /\ data_queue' = SubSeq(data_queue, 1, Len(data_queue) - 1)
            /\ drained' = [drained EXCEPT ![p] = Append(@, data)]
            /\ plotter' = [plotter EXCEPT ![p] =
                 [pc |-> "loop", raced |-> FALSE,
                  series |-> [s \in Series |->
                     deque_append(plotter[p].series[s], AxisValue(data, s), max_points)]]]
  /\ UNCHANGED <<is_running, collection_thread, data_buffer, thread, caller, ret,
                 polls, outcomes, waits, pushed, enqueued, ever_stopped, parser_vars>>

\* Variant: no `except queue.Empty`, so a get_nowait on a queue emptied since
\* the check ends the tick with the exception.
DrainGetUncaught(p) ==
  /\ plotter[p].pc = "get"
  /\ IF data_queue = <<>>
       THEN /\ plotter' = [plotter EXCEPT ![p].pc = "failed", ![p].raced = TRUE]
            /\ UNCHANGED <<data_queue, drained>>
       ELSE LET data == Head(data_queue) IN
            /\ data_queue' = Tail(data_queue)
            /\ drained' = [drained EXCEPT ![p] = Append(@, data)]
            /\ plotter' = [plotter EXCEPT ![p] =
                 [pc |-> "loop", raced |-> FALSE,
                  series |-> [s \in Series |->
                     deque_append(plotter[p].series[s], AxisValue(data, s), max_points)]]]
  /\ UNCHANGED <<is_running, collection_thread, data_buffer, thread, caller, ret,
                 polls, outcomes, waits, pushed, enqueued, ever_stopped, parser_vars>>

\* data = data_queue.get_nowait() and the 12 appends; queue.Empty ends the tick.
DrainGet(p) ==
  /\ plotter[p].pc = "get"
  /\ IF data_queue = <<>>
       THEN /\ plotter' = [plotter EXCEPT ![p].pc = "idle", ![p].raced = TRUE]
            /\ UNCHANGED <<data_queue, drained>>
       ELSE LET data == Head(data_queue) IN
            /\ data_queue' = Tail(data_queue)
            /\ drained' = [drained EXCEPT ![p] = Append(@, data)]
            /\ plotter' = [plotter EXCEPT ![p] =
                 [pc |-> "loop", raced |-> FALSE,
                  series |-> [s \in Series |->
                     deque_append(plotter[p].series[s], AxisValue(data, s), max_points)]]]
  /\ UNCHANGED <<is_running, collection_thread, data_buffer, thread, caller, ret,
                 polls, outcomes, waits, pushed, enqueued, ever_stopped, parser_vars>>

update_plot_data(p) ==
  \/ DrainCheck(p)
  \/ DrainGet(p)

\* -------------------------------------------------------------- reads
\* Positions of a caller inside the export.
ExportSteps == {"export_iter", "export_rows"}

\* A call of get_data_history, with no count or a count of 0..MaxCount.  With
\* the value returned, ret keeps the buffer the call read and the number of
\* snapshots pushed by then.
GetHistory ==
  /\ \A c \in AllCallers : caller[c].pc \notin ExportSteps
  /\ \E count \in {NoCount} \cup { Count(k) : k \in 0..MaxCount } :
       ret' = [op |-> "history", count |-> count,
               value |-> get_data_history(data_buffer, count),
               buffer |-> data_buffer, at |-> Len(pushed),
               quiet |-> FALSE, raised |-> FALSE, written |-> FALSE]
  /\ UNCHANGED <<reader_vars, thread, caller, plotter, history_vars, parser_vars>>

\* A call of get_latest_data; ret keeps the number of snapshots pushed by then.
GetLatest ==
  /\ \A c \in AllCallers : caller[c].pc \notin ExportSteps
  /\ ret' = [op |-> "latest", count |-> NoCount,
             value |-> get_latest_data(data_buffer),
             buffer |-> data_buffer, at |-> Len(pushed),
             quiet |-> FALSE, raised |-> FALSE, written |-> FALSE]
  /\ UNCHANGED <<reader_vars, thread, caller, plotter, history_vars, parser_vars>>

\* No polling thread is alive.
Quiescent == \A t \in ThreadIds : thread[t].pc \in {"unborn", "done"}

\* The export main() runs in its `finally`, once stop_collection has returned.
\* `if not self.data_buffer: return pd.DataFrame()`: an empty buffer ends the
\* export with no rows, and `if not df.empty` then writes no file.  ret keeps
\* whether the reader was quiescent when the export began.
ExportCheck(c) ==
  /\ caller[c].pc = "idle"
  /\ caller[c].op = "stop"
  /\ caller' = [caller EXCEPT ![c] =
       [pc |-> IF data_buffer = <<>> THEN "idle" ELSE "export_iter",
        op |-> "export", target |-> 0, skipped |-> FALSE, repeat |-> FALSE]]
  /\ ret' = [op |-> "export", count |-> NoCount, value |-> <<>>, buffer |-> <<>>,
             at |-> Len(pushed), quiet |-> Quiescent, raised |-> FALSE,
             written |-> FALSE]
  /\ UNCHANGED <<reader_vars, thread, plotter, history_vars, parser_vars>>

\* `for data in self.data_buffer:` creates the deque's iterator, which notes
\* the deque's state (here the number of appends so far).
ExportIter(c) ==
  /\ caller[c].pc = "export_iter"
  /\ caller' = [caller EXCEPT ![c].pc = "export_rows"]
  /\ ret' = [ret EXCEPT !.buffer = data_buffer, !.at = Len(pushed)]
  /\ UNCHANGED <<reader_vars, thread, plotter, history_vars, parser_vars>>

\* The loop over the iterator and pd.DataFrame(records): an append to the
\* deque since the iterator was created makes its next() raise RuntimeError
\* ("deque mutated during iteration"), which leaves main() before to_csv;
\* otherwise the rows are built and, not being empty, written by df.to_csv.
ExportRows(c) ==
  /\ caller[c].pc = "export_rows"
  /\ caller' = [caller EXCEPT ![c].pc = "idle"]
  /\ ret' = IF Len(pushed) # ret.at
              THEN [ret EXCEPT !.raised = TRUE]
              ELSE [ret EXCEPT !.value = export_to_dataframe(ret.buffer),
                               !.written = export_to_dataframe(ret.buffer) # <<>>]
  /\ UNCHANGED <<reader_vars, thread, plotter, history_vars, parser_vars>>

Export(c) ==
  \/ ExportCheck(c)
  \/ ExportIter(c)
  \/ ExportRows(c)

\* ------------------------------------------------------ specifications
Init ==
  /\ InitSystem
  /\ p_raw = EmptyDict
  /\ p_edits = 0
  /\ p_out = [done |-> FALSE, result |-> None]

\* Any sequence of start_collection and stop_collection calls by one caller,
\* restarts included, and the polling threads they spawn; every fetch fails or
\* returns the gravity payload.
Next ==
  \/ \E c \in {"main"} : start_collection(c)
  \/ \E c \in {"main"} : stop_collection(c)
  \/ \E t \in ThreadIds : collect_data(t, {GravityPayload}, MaxRestartPolls)

Spec == Init /\ [][Next]_vars

\* The use main() makes of a reader: start_collection (here any number of
\* times) and then stop_collection, never a start after a stop.
SessionStart(c) == ~ever_stopped /\ start_collection(c)

\* A session with one plotter draining the queue.
NextSession ==
  \/ \E c \in {"main"} : SessionStart(c)
  \/ \E c \in {"main"} : stop_collection(c)
  \/ \E t \in ThreadIds : collect_data(t, StubPayloads, MaxPolls)
  \/ \E p \in {"p1"} : update_plot_data(p)

SpecSession == Init /\ [][NextSession]_vars

\* A session with reads of the buffer and no plotter; every fetch fails or
\* returns the gravity payload.
NextReads ==
  \/ \E c \in {"main"} : SessionStart(c)
  \/ \E c \in {"main"} : stop_collection(c)
  \/ \E t \in ThreadIds : collect_data(t, {GravityPayload}, MaxPolls)
  \/ GetHistory
  \/ GetLatest
  \/ \E c \in {"main"} : Export(c)

SpecReads == Init /\ [][NextReads]_vars

\* A session in which every polling thread that can take a step eventually
\* takes one: the interpreter schedules a runnable thread, and requests.get
\* (timeout=2) and time.sleep return.  The cap on fetches is lifted by one
\* once stop_collection is called, so that it never holds back the iteration
\* in flight at the stop.  A fetch fails or returns a payload that is parsed,
\* with samples that print or make the print raise.
FairPayloads == {GravityPayload, NullSamplePayload}

FairBudget == IF ever_stopped THEN MaxPolls + 1 ELSE MaxPolls

NextFair ==
  \/ \E c \in {"main"} : SessionStart(c)
  \/ \E c \in {"main"} : stop_collection(c)
  \/ \E t \in ThreadIds : collect_data(t, FairPayloads, FairBudget)

SpecFair ==
  /\ Init
  /\ [][NextFair]_vars
  /\ \A t \in ThreadIds : WF_vars(collect_data(t, FairPayloads, FairBudget))

\* A session with two plotters draining the same reader's queue; every fetch
\* fails or returns the gravity payload.
NextFanout ==
  \/ \E c \in {"main"} : SessionStart(c)
  \/ \E c \in {"main"} : stop_collection(c)
  \/ \E t \in ThreadIds : collect_data(t, {GravityPayload}, MaxPolls)
  \/ \E p \in AllPlotters : update_plot_data(p)

SpecFanout == Init /\ [][NextFanout]_vars

\* ---------------------------------------------------------------- claims
Min(a, b) == IF a <= b THEN a ELSE b

\* the last n items of seq
LastN(seq, n) == SubSeq(seq, Len(seq) - n + 1, Len(seq))

\* the first n items of seq
FirstN(seq, n) == SubSeq(seq, 1, n)

\* how many items of seq equal x
Occurrences(seq, x) == Cardinality({ i \in 1..Len(seq) : seq[i] = x })

\* threads that have been created
Spawned == { t \in ThreadIds : thread[t].pc # "unborn" }

\* C1: after N pushes into a buffer of capacity C the buffer holds, and
\* get_data_history() with no count returns, exactly the last min(N, C) pushed
\* snapshots in push order; the buffer never holds more than C.
C1_RollingBufferFifo ==
  /\ Len(data_buffer) <= max_buffer_size
  /\ data_buffer = LastN(pushed, Min(Len(pushed), max_buffer_size))
  /\ (ret.op = "history" /\ ~ret.count.given) =>
       ret.value = LastN(FirstN(pushed, ret.at), Min(ret.at, max_buffer_size))

\* C1 witness: a history read with no count after more pushes than the
\* capacity, returning exactly `capacity` snapshots.
C1_Witness ==
  /\ ret.op = "history"
  /\ ~ret.count.given
  /\ ret.at > max_buffer_size
  /\ Len(ret.value) = max_buffer_size
  /\ ret.value[1] = pushed[ret.at - max_buffer_size + 1]

\* C2: once stop_collection has been called the reader is never Running again
\* and no second polling thread is ever spawned.
C2_StoppedIsTerminal ==
  ever_stopped => (~is_running /\ Cardinality(Spawned) <= 1)

\* C3: an iteration whose fetch fails is notified, begins the 2-unit backoff,
\* appends nothing and leaves the loop Running; with one polling thread the
\* i-th wait is the 2-unit backoff exactly when the i-th fetch failed, and the
\* snapshots pushed are as many as the fetches the parser accepted, so three
\* failures and then one accepted fetch make three backoffs and one snapshot.
C3_TransportFailureBacksOff ==
  /\ \A t \in ThreadIds :
       thread[t].outcome = "fail" =>
         /\ thread[t].pc \in {"backoff2", "done"}
         /\ thread[t].notified
         /\ ~thread[t].appended
         /\ (~ever_stopped => (is_running /\ thread[t].pc = "backoff2"))
  /\ \A i \in 1..Len(waits) : (outcomes[i] = "fail") <=> (waits[i] = "backoff2")
  /\ Len(pushed) =
       Occurrences(outcomes, "ok")
         - Cardinality({ t \in ThreadIds : thread[t].pc = "append" })
  /\ (Len(waits) = 4 /\ outcomes = <<"fail", "fail", "fail", "ok">>) =>
       /\ Occurrences(waits, "backoff2") = 3
       /\ Len(pushed) = 1
       /\ Len(data_buffer) = 1
       /\ Len(enqueued) = 1

\* C3 witness: three failed fetches and then an accepted one, all four
\* iterations through to their wait.
C3_Witness ==
  /\ outcomes = <<"fail", "fail", "fail", "ok">>
  /\ Len(waits) = 4
  /\ Len(data_buffer) = 1

\* C4: an iteration whose payload the parser rejects waits the 1-unit backoff.
C4_ParseFailureBacksOff ==
  \A t \in ThreadIds :
    (thread[t].outcome = "reject" /\ Waiting(t)) => thread[t].pc = "backoff1"

\* C5: with one plotter, what it has drained so far followed by what is still
\* queued is exactly what has been enqueued so far: the drained snapshots are a
\* prefix of the enqueued ones, in order, none twice, none skipped.
C5_QueueFifo ==
  /\ drained["p1"] \o data_queue = enqueued
  /\ \A i, j \in 1..Len(drained["p1"]) :
       i # j => drained["p1"][i] # drained["p1"][j]

\* C5 witness: a drain that began with two snapshots queued has taken the
\* first, and a third one was enqueued meanwhile.
C5_Witness ==
  /\ Len(drained["p1"]) = 1
  /\ Len(data_queue) = 2
  /\ plotter["p1"].pc = "loop"
  /\ plotter["p1"].series[<<"gravity", 2>>] = <<JNum(98)>>

\* A payload that is a mapping in which every channel is absent or carries a
\* list as its buffer ('buffer' itself may be missing: then every channel is).
WellFormed(raw) ==
  /\ raw.kind = "dict"
  /\ "buffer" \in DOMAIN raw.map =>
       /\ raw.map["buffer"].kind = "dict"
       /\ \A c \in Channels \cap DOMAIN raw.map["buffer"].map :
            LET e == raw.map["buffer"].map[c] IN
              /\ e.kind = "dict"
              /\ "buffer" \in DOMAIN e.map => e.map["buffer"].kind = "list"

\* The samples of channel c in a well-formed payload, <<>> when it has none.
SamplesOf(raw, c) ==
  IF "buffer" \notin DOMAIN raw.map THEN <<>>
  ELSE IF c \notin DOMAIN raw.map["buffer"].map THEN <<>>
  ELSE IF "buffer" \notin DOMAIN raw.map["buffer"].map[c].map THEN <<>>
  ELSE raw.map["buffer"].map[c].map["buffer"].items

\* Where the snapshot keeps channel c.
SnapshotValue(snap, c) ==
  CASE c = "graX" -> snap.gravity.data.items[1]
    [] c = "graY" -> snap.gravity.data.items[2]
    [] c = "graZ" -> snap.gravity.data.items[3]
    [] c = "graT" -> snap.gravity.time
    [] c = "lin_accX" -> snap.linear_acceleration.data.items[1]
    [] c = "lin_accY" -> snap.linear_acceleration.data.items[2]
    [] c = "lin_accZ" -> snap.linear_acceleration.data.items[3]
    [] c = "lin_acc_time" -> snap.linear_acceleration.time
    [] c = "accX" -> snap.acceleration.data.items[1]
    [] c = "accY" -> snap.acceleration.data.items[2]
    [] c = "accZ" -> snap.acceleration.data.items[3]
    [] c = "acc_time" -> snap.acceleration.time
    [] c = "gyroX" -> snap.gyroscope.data.items[1]
    [] c = "gyroY" -> snap.gyroscope.data.items[2]
    [] c = "gyroZ" -> snap.gyroscope.data.items[3]
    [] c = "gyro_time" -> snap.gyroscope.time

\* C6: on a well-formed payload the parser returns a snapshot, never None, in
\* which every channel's value is the first sample of its buffer, 0.0 when the
\* channel is absent or its buffer empty.
C6_ParserAbsorbsMissing ==
  (p_out.done /\ WellFormed(p_raw)) =>
    /\ p_out.result.kind = "snapshot"
    /\ \A c \in Channels :
         SnapshotValue(p_out.result, c) =
           IF SamplesOf(p_raw, c) = <<>> THEN Zero ELSE SamplesOf(p_raw, c)[1]

\* C6 witness: a parsed payload with gyroX absent, a channel with an empty
\* buffer and the other channels carrying two samples.
C6_Witness ==
  /\ p_out.done
  /\ WellFormed(p_raw)
  /\ "buffer" \in DOMAIN p_raw.map
  /\ "gyroX" \notin DOMAIN p_raw.map["buffer"].map
  /\ \E c \in Channels \cap DOMAIN p_raw.map["buffer"].map :
       /\ "buffer" \in DOMAIN p_raw.map["buffer"].map[c].map
       /\ SamplesOf(p_raw, c) = <<>>
  /\ Len(SamplesOf(p_raw, "graZ")) = 2
  /\ p_out.result.kind = "snapshot"
  /\ p_out.result.gyroscope.data.items[1] = Zero

\* C7: a payload that is not a mapping makes the parser return None, no
\* snapshot; a well-formed mapping never does, whatever channels it lacks.
C7_ParseFailureOnlyForMalformed ==
  p_out.done =>
    /\ p_raw.kind # "dict" => p_out.result = None
    /\ WellFormed(p_raw) => p_out.result # None

\* C7 witness: a payload that is a list has been parsed to None.
C7_Witness ==
  /\ p_out.done
  /\ p_raw.kind = "list"
  /\ p_out.result = None

\* C8: get_data_history(count) with count >= 0 returns exactly the last
\* min(count, L) snapshots of the buffer of length L it read.
C8_WindowedHistory ==
  (ret.op = "history" /\ ret.count.given) =>
    ret.value = LastN(ret.buffer, Min(ret.count.n, Len(ret.buffer)))

\* C9: a polling thread has exited only if stop_collection was called; until
\* then, whatever the fetches and payloads did, every thread created is alive
\* and the running flag is set.
C9_ErrorsNeverEndAcquisition ==
  \A t \in ThreadIds :
    /\ thread[t].pc = "done" => ever_stopped
    /\ (thread[t].pc \notin {"unborn", "done"} /\ ~ever_stopped) => is_running

\* C9 witness: a transport failure, a rejected payload and a failed print have
\* all happened, no stop was called, and the thread is fetching again.
C9_Witness ==
  /\ ~ever_stopped
  /\ is_running
  /\ Occurrences(outcomes, "fail") >= 1
  /\ Occurrences(outcomes, "reject") >= 1
  /\ Occurrences(waits, "backoff1") >= 1
  /\ \E t \in ThreadIds : thread[t].pc = "fetch"

\* C10: a start_collection call that finds the reader Running returns at once
\* and changes neither the flag, the thread, the buffer, the queue nor any
\* polling thread; as long as no stop was called there is one polling thread
\* at most.
C10_StartWhileRunningNoOp ==
  /\ [][\A c \in AllCallers :
          (/\ caller[c].pc = "idle"
           /\ caller'[c] # caller[c]
           /\ caller'[c].op = "start"
           /\ is_running)
          => (/\ caller'[c].pc = "idle"
              /\ caller'[c].skipped
              /\ UNCHANGED <<reader_vars, thread>>)]_vars
  /\ [](~ever_stopped => Cardinality(Spawned) <= 1)

\* C10 witness: the last start_collection found the reader Running and
\* returned, with the one polling thread past its first append.
C10_Witness ==
  /\ caller["main"].skipped
  /\ caller["main"].pc = "idle"
  /\ is_running
  /\ ~ever_stopped
  /\ Cardinality(Spawned) = 1
  /\ Len(pushed) >= 1

\* C11: a stop_collection call that directly follows a stop_collection changes
\* neither the running flag, the thread handle, the buffer, the queue nor any
\* polling thread, in any of its steps; the flag it finds is already cleared.
C11_StopIdempotent ==
  [][\A c \in AllCallers :
       (/\ caller'[c] # caller[c]
        /\ caller'[c].op = "stop"
        /\ caller'[c].repeat)
       => (/\ ~is_running
           /\ UNCHANGED <<reader_vars, thread>>)]_vars

\* C11 witness: a second stop_collection has returned on a reader that was
\* started and had pushed a snapshot.
C11_Witness ==
  /\ caller["main"].op = "stop"
  /\ caller["main"].repeat
  /\ caller["main"].pc = "idle"
  /\ Len(pushed) >= 1
  /\ Len(data_queue) >= 1

\* the items of seq, as a set
Range(seq) == { seq[i] : i \in 1..Len(seq) }

\* sub holds items of seq only, none twice, in the order seq has them
InOrderOf(sub, seq) ==
  /\ Range(sub) \subseteq Range(seq)
  /\ \A i, j \in 1..Len(sub) :
       i < j => (CHOOSE m \in 1..Len(seq) : seq[m] = sub[i])
                  < (CHOOSE n \in 1..Len(seq) : seq[n] = sub[j])

\* C12: with two plotters draining one queue, no snapshot is drained by both
\* or twice by one; every enqueued snapshot is either still queued or drained
\* by one of them, so none is lost once the queue is empty; each plotter's
\* snapshots are in the order they were enqueued; and a get_nowait that finds
\* the queue emptied by the other plotter ends the tick normally, with the
\* plotter idle and its series as they were.
C12_CompetingDrainers ==
  /\ Range(drained["p1"]) \cap Range(drained["p2"]) = {}
  /\ Range(drained["p1"]) \cup Range(drained["p2"]) \cup Range(data_queue)
       = Range(enqueued)
  /\ Len(drained["p1"]) + Len(drained["p2"]) + Len(data_queue) = Len(enqueued)
  /\ \A p \in AllPlotters :
       /\ InOrderOf(drained[p], enqueued)
       /\ plotter[p].pc \in {"idle", "get", "loop"}
       /\ plotter[p].raced =>
            /\ plotter[p].pc = "idle"
            /\ \A s \in Series :
                 Len(plotter[p].series[s]) = Min(Len(drained[p]), max_points)

\* C12 witness: both plotters have drained snapshots, the queue is empty, and
\* p2's last get_nowait found the queue emptied by p1 after p2's check.
C12_Witness ==
  /\ Len(drained["p1"]) >= 2
  /\ Len(drained["p2"]) >= 1
  /\ data_queue = <<>>
  /\ Len(enqueued) >= 3
  /\ plotter["p2"].raced
  /\ drained["p1"][Len(drained["p1"])] = enqueued[Len(enqueued)]

\* the values of series s in the snapshots of seq, in order
AxisValues(seq, s) == [i \in 1..Len(seq) |-> AxisValue(seq[i], s)]

\* C13: whenever the plotter of window max_points is between refresh ticks and
\* has drained k snapshots in all, each of its 12 series is the last
\* min(max_points, k) values of its axis in drained order; so the 12 series
\* have one length, and it is max_points at most.
C13_SlidingWindow ==
  plotter["p1"].pc = "idle" =>
    \A s \in Series :
      /\ plotter["p1"].series[s] =
           LastN(AxisValues(drained["p1"], s), Min(max_points, Len(drained["p1"])))
      /\ Len(plotter["p1"].series[s]) <= max_points

\* C13 witness: a tick has completed with more snapshots drained than the
\* window holds, the oldest one's gravity z evicted from a full series.
C13_Witness ==
  /\ plotter["p1"].pc = "idle"
  /\ Len(drained["p1"]) > max_points
  /\ Len(plotter["p1"].series[<<"gravity", 2>>]) = max_points
  /\ plotter["p1"].series[<<"gravity", 0>>][1] # AxisValue(drained["p1"][1], <<"gravity", 0>>)

\* an export that has returned or raised
ExportEnded == ret.op = "export" /\ caller["main"].pc \notin ExportSteps

\* C14: an export begun with no polling thread alive raises nothing and
\* returns one row per snapshot of the buffer, oldest first, each row's
\* timestamp, x, y, z and time columns being that snapshot's values; the file
\* is written exactly when there are rows, so not for an empty buffer.  After
\* N polls that succeeded at capacity C the rows are min(N, C), with gravity
\* columns (0, 0, 9.8).
C14_ExportMirrorsBuffer ==
  (ExportEnded /\ ret.quiet) =>
    /\ ~ret.raised
    /\ Len(ret.value) = Len(data_buffer)
    /\ Len(ret.value) = Min(Len(pushed), max_buffer_size)
    /\ ret.written <=> data_buffer # <<>>
    /\ \A i \in 1..Len(ret.value) :
         LET row == ret.value[i]
             snap == data_buffer[i]
         IN /\ row.timestamp = snap.timestamp
            /\ <<row.gravity_x, row.gravity_y, row.gravity_z>> = snap.gravity.data.items
            /\ <<row.gravity_x, row.gravity_y, row.gravity_z>>
                 = <<JNum(0), JNum(0), JNum(98)>>
            /\ row.gravity_time = snap.gravity.time
            /\ <<row.lin_acc_x, row.lin_acc_y, row.lin_acc_z>>
                 = snap.linear_acceleration.data.items
            /\ row.lin_acc_time = snap.linear_acceleration.time
            /\ <<row.acc_x, row.acc_y, row.acc_z>> = snap.acceleration.data.items
            /\ row.acc_time = snap.acceleration.time
            /\ <<row.gyro_x, row.gyro_y, row.gyro_z>> = snap.gyroscope.data.items
            /\ row.gyro_time = snap.gyroscope.time
            /\ DOMAIN row = {"timestamp", "gravity_x", "gravity_y", "gravity_z",
                 "gravity_time", "lin_acc_x", "lin_acc_y", "lin_acc_z", "lin_acc_time",
                 "acc_x", "acc_y", "acc_z", "acc_time", "gyro_x", "gyro_y", "gyro_z",
                 "gyro_time"}

\* C14 witness: after more successful polls than the capacity and a stop that
\* joined the thread, the export has written as many rows as the capacity.
C14_Witness ==
  /\ ExportEnded
  /\ ret.quiet
  /\ Len(pushed) > max_buffer_size
  /\ Len(ret.value) = max_buffer_size
  /\ ret.written
  /\ ret.value[1].timestamp = pushed[Len(pushed) - max_buffer_size + 1].timestamp

\* C15: get_latest_data returns None, and no record of any kind, when no
\* snapshot has been pushed by the time of the call, and the most recently
\* pushed snapshot otherwise.
C15_LatestOrNone ==
  ret.op = "latest" =>
    IF ret.at = 0
      THEN ret.value = None
      ELSE /\ ret.value = pushed[ret.at]
           /\ ret.value.kind = "snapshot"

\* C15 witness: a call after more pushes than the capacity has returned the
\* last snapshot pushed, which is not the oldest one in the buffer.
C15_Witness ==
  /\ ret.op = "latest"
  /\ ret.at > max_buffer_size
  /\ ret.value = pushed[ret.at]
  /\ ret.value # ret.buffer[1]

\* C16: in a session, once stop_collection has been called no polling thread
\* begins another iteration (a thread already past the flag test finishes the
\* iteration it is in), and under fair scheduling every polling thread alive
\* when stop_collection is called eventually exits.
C16_StopTerminatesLoop ==
  /\ [][ever_stopped =>
         \A t \in ThreadIds :
           thread'[t].pc = "fetch" => thread[t].pc = "fetch"]_vars
  /\ \A t \in ThreadIds :
       (ever_stopped /\ thread[t].pc \notin {"unborn", "done"})
         ~> (thread[t].pc = "done")

\* C16 witness: the thread has exited after completing an iteration whose
\* fetch returned after stop_collection was called and ended in a backoff.
C16_Witness ==
  /\ ever_stopped
  /\ thread[1].pc = "done"
  /\ polls = MaxPolls + 1
  /\ outcomes[Len(outcomes)] = "fail"
  /\ waits[Len(waits)] = "backoff2"

\* stop_collection has been called and has returned
StopReturned == ever_stopped /\ caller["main"].pc # "stop_join"

\* C17: in a session, once stop_collection has returned nothing more is
\* appended to the buffer or put on the queue.
C17_BufferFrozenAfterStop ==
  [][StopReturned => UNCHANGED <<pushed, enqueued>>]_vars

\* threads that have passed the test of `while self.is_running` and not exited
InLoop ==
  { t \in ThreadIds :
      thread[t].pc \in {"fetch", "append", "put", "print", "sleep", "backoff2",
                        "backoff1"} }

\* C18: under any sequence of start_collection and stop_collection calls at
\* most one polling thread is inside the loop of collect_data.
C18_SingleWriter == Cardinality(InLoop) <= 1

\* C19: no iteration both appends its snapshot and notifies an error.
C19_ErrorOrPush ==
  \A t \in ThreadIds : ~(thread[t].appended /\ thread[t].notified)

\* C20: with one polling thread, the snapshots ever put on the queue are a
\* prefix of those ever appended to the buffer, shorter by one at most and
\* only while the thread is between its append and its put; whenever the
\* thread is at an iteration boundary the two sequences are equal.
C20_BufferQueuePairing ==
  /\ Len(enqueued) <= Len(pushed)
  /\ enqueued = FirstN(pushed, Len(enqueued))
  /\ Len(pushed) - Len(enqueued) <= 1
  /\ (\E t \in ThreadIds : thread[t].pc = "put") <=> Len(pushed) = Len(enqueued) + 1
  /\ \A t \in ThreadIds : Waiting(t) => pushed = enqueued

\* C20 witness: the thread has appended its third snapshot and not yet put
\* it on the queue, which the plotter has drained of the first two.
C20_Witness ==
  /\ thread[1].pc = "put"
  /\ Len(pushed) = 3
  /\ Len(enqueued) = 2
  /\ Len(drained["p1"]) = 2
  /\ data_buffer[Len(data_buffer)] = pushed[3]
====
